---- MODULE Spec2Model ----
(***************************************************************************)
(* A model of python-Wappalyzer (src/Wappalyzer/Wappalyzer.py): the        *)
(* signature store and its normalisation, the match engine, the confidence *)
(* and version bookkeeping, the implied-technology closure and the report  *)
(* accessors.                                                              *)
(*                                                                         *)
(* Python strings are sequences of one-character strings, so that split,   *)
(* replace, lower and the regular expressions act on characters.           *)
(* Dictionary keys that the code never takes apart (technology names,      *)
(* the keys of an entry) are TLA+ strings.                                 *)
(***************************************************************************)
EXTENDS Integers, Sequences, FiniteSets, TLC

VARIABLES
    apps,        \* self.apps of the analysed store: name -> entry
    page,        \* the WebPage of the last analyze call
    result,      \* what the last analyze_with_versions returned
    calls,       \* the number of analyses made on the store
    implies,     \* closure run: the store's implies lists
    detected_apps,    \* closure run: detected_apps of analyze
    implied_apps,     \* closure run: implied_apps of _get_implied_apps
    all_implied_apps, \* closure run: all_implied_apps
    cpc,         \* closure run: position in analyze/_get_implied_apps
    iters,       \* closure run: iterations of the while loop so far
    vpattern,    \* version run: the firing pattern
    vvalue,      \* version run: the matched value
    vout,        \* version run: the version of every occurrence
    vapp,        \* version run: the entry after _set_detected_app
    vpc,         \* version run: position
    entry,       \* normalisation run: the technology entry
    prepared,    \* normalisation run: applications of _prepare_app so far
    first,       \* normalisation run: the entry after the first application
    perr,        \* normalisation run: an application raised
    catapps,     \* category run: name -> cats list
    catname,     \* category run: the argument of get_categories
    catresult    \* category run: what get_categories did

analysisVars == <<apps, page, result, calls>>
closureVars  == <<implies, detected_apps, implied_apps, all_implied_apps, cpc, iters>>
versionVars  == <<vpattern, vvalue, vout, vapp, vpc>>
prepareVars  == <<entry, prepared, first, perr>>
categoryVars == <<catapps, catname, catresult>>
vars == <<analysisVars, closureVars, versionVars, prepareVars, categoryVars>>

(***************************************************************************)
(* Characters and strings                                                  *)
(***************************************************************************)

\* str.lower() and re.I on the letters the model uses in both cases.
Lower(c) ==
    CASE c = "V" -> "v"
      [] c = "X" -> "x"
      [] c = "P" -> "p"
      [] OTHER -> c

LowerStr(s) == [i \in 1..Len(s) |-> Lower(s[i])]

\* str(n) for the one-digit numbers the model needs.
DigitChar(n) == <<"0", "1", "2", "3", "4", "5", "6", "7", "8", "9">>[n + 1]

IsDigit(c) == \E n \in 0..9 : DigitChar(n) = c

DigitValue(c) == CHOOSE n \in 0..9 : DigitChar(n) = c

\* int(s) for a string of digits.
RECURSIVE ParseInt(_)
ParseInt(s) ==
    IF s = <<>> THEN 0
    ELSE 10 * ParseInt(SubSeq(s, 1, Len(s) - 1)) + DigitValue(s[Len(s)])

\* s[p:].startswith(pat), p 1-based.
StartsAt(s, pat, p) ==
    /\ p + Len(pat) - 1 <= Len(s)
    /\ \A i \in 1..Len(pat) : s[p + i - 1] = pat[i]

\* s.find(pat, p): the least position >= p where pat starts, 0 when none.
FindFrom(s, pat, p) ==
    IF \E q \in p..Len(s) : StartsAt(s, pat, q)
    THEN CHOOSE q \in p..Len(s) :
            /\ StartsAt(s, pat, q)
            /\ \A r \in p..(q - 1) : ~StartsAt(s, pat, r)
    ELSE 0

\* s.replace(old, new), old non-empty: every non-overlapping occurrence,
\* left to right.
RECURSIVE ReplaceFrom(_, _, _, _)
ReplaceFrom(s, old, new, p) ==
    LET q == FindFrom(s, old, p) IN
    IF q = 0 THEN SubSeq(s, p, Len(s))
    ELSE SubSeq(s, p, q - 1) \o new \o ReplaceFrom(s, old, new, q + Len(old))

Replace(s, old, new) == IF old = <<>> THEN s ELSE ReplaceFrom(s, old, new, 1)

\* s.split(delim), delim non-empty: the list of the segments.
RECURSIVE SplitFrom(_, _, _)
SplitFrom(s, delim, p) ==
    LET q == FindFrom(s, delim, p) IN
    IF q = 0 THEN <<SubSeq(s, p, Len(s))>>
    ELSE <<SubSeq(s, p, q - 1)>> \o SplitFrom(s, delim, q + Len(delim))

Split(s, delim) == SplitFrom(s, delim, 1)

\* delim.join(parts)
RECURSIVE Join(_, _)
Join(parts, delim) ==
    IF parts = <<>> THEN <<>>
    ELSE IF Len(parts) = 1 THEN parts[1]
    ELSE parts[1] \o delim \o Join(Tail(parts), delim)

(***************************************************************************)
(* The regular expressions of the re module, for the expressions the       *)
(* modelled stores hold: a literal followed by capture groups, each a      *)
(* character class repeated with + or with the star, where a class lists   *)
(* characters and digit ranges a-b.  The classes of consecutive groups are *)
(* disjoint, so the greedy match below is the match re finds.              *)
(***************************************************************************)

\* The characters of the digit range a-b of a class.
ClassRange(a, b) == {DigitChar(n) : n \in DigitValue(a)..DigitValue(b)}

\* The set of characters of a class body such as 0-9. (characters and ranges).
RECURSIVE ClassSet(_, _)
ClassSet(body, k) ==
    IF k > Len(body) THEN {}
    ELSE IF k + 2 <= Len(body) /\ body[k + 1] = "-"
              /\ IsDigit(body[k]) /\ IsDigit(body[k + 2])
         THEN ClassRange(body[k], body[k + 2]) \cup ClassSet(body, k + 3)
         ELSE {body[k]} \cup ClassSet(body, k + 1)

\* The groups of expr from position p on: ([class]q)...; ok is FALSE where
\* re.compile raises re.error (a group that is not closed).
RECURSIVE ParseGroups(_, _)
ParseGroups(expr, p) ==
    IF p > Len(expr) THEN [ok |-> TRUE, groups |-> <<>>]
    ELSE
        LET close == FindFrom(expr, <<"]">>, p)
            wellFormed ==
                /\ StartsAt(expr, <<"(", "[">>, p)
                /\ close > p + 2
                /\ close + 2 <= Len(expr)
                /\ expr[close + 1] \in {"+", "*"}
                /\ expr[close + 2] = ")"
        IN  IF ~wellFormed THEN [ok |-> FALSE, groups |-> <<>>]
            ELSE
                LET rest == ParseGroups(expr, close + 3)
                    group == [cls |-> ClassSet(SubSeq(expr, p + 2, close - 1), 1),
                              min |-> IF expr[close + 1] = "+" THEN 1 ELSE 0]
                IN  [ok |-> rest.ok, groups |-> <<group>> \o rest.groups]

\* re.compile(r'(?!x)x'): the regex that never matches.
NeverMatches == [never |-> TRUE, icase |-> FALSE, lit |-> <<>>, groups |-> <<>>]

\* re.compile(expression, re.I); ok is FALSE when it raises re.error.
Compile(expr) ==
    LET open   == FindFrom(expr, <<"(">>, 1)
        litEnd == IF open = 0 THEN Len(expr) ELSE open - 1
        parsed == ParseGroups(expr, litEnd + 1)
    IN  [ok |-> parsed.ok,
         rx |-> [never |-> FALSE, icase |-> TRUE,
                 lit |-> SubSeq(expr, 1, litEnd), groups |-> parsed.groups]]

Fold(rx, c) == IF rx.icase THEN Lower(c) ELSE c

\* The length of the longest run of characters of cls in s from position p.
RECURSIVE Run(_, _, _, _)
Run(rx, cls, s, p) ==
    IF p <= Len(s) /\ Fold(rx, s[p]) \in {Fold(rx, c) : c \in cls}
    THEN 1 + Run(rx, cls, s, p + 1)
    ELSE 0

\* The groups k.. of rx matched greedily at position p of s.
RECURSIVE MatchGroups(_, _, _, _)
MatchGroups(rx, k, s, p) ==
    IF k > Len(rx.groups) THEN [ok |-> TRUE, end |-> p, caps |-> <<>>]
    ELSE
        LET n == Run(rx, rx.groups[k].cls, s, p) IN
        IF n < rx.groups[k].min THEN [ok |-> FALSE, end |-> p, caps |-> <<>>]
        ELSE
            LET rest == MatchGroups(rx, k + 1, s, p + n) IN
            [ok |-> rest.ok, end |-> rest.end,
             caps |-> <<SubSeq(s, p, p + n - 1)>> \o rest.caps]

\* regex.match(s, p - 1): end is the position after the match.
MatchAt(rx, s, p) ==
    IF rx.never \/ p + Len(rx.lit) - 1 > Len(s)
       \/ \E i \in 1..Len(rx.lit) : Fold(rx, s[p + i - 1]) # Fold(rx, rx.lit[i])
    THEN [ok |-> FALSE, end |-> p, caps |-> <<>>]
    ELSE MatchGroups(rx, 1, s, p + Len(rx.lit))

\* regex.search(s) is not None
Search(rx, s) == \E p \in 1..(Len(s) + 1) : MatchAt(rx, s, p).ok

\* re.findall(regex, s): the non-overlapping matches, left to right; each is
\* the matched text (no group), the text of the group (one group) or the
\* tuple of the groups' texts (several groups).
RECURSIVE FindAllFrom(_, _, _)
FindAllFrom(rx, s, p) ==
    IF p > Len(s) + 1 THEN <<>>
    ELSE
        LET m == MatchAt(rx, s, p) IN
        IF ~m.ok THEN FindAllFrom(rx, s, p + 1)
        ELSE
            LET item == IF Len(rx.groups) = 0
                        THEN [isstr |-> TRUE, text |-> SubSeq(s, p, m.end - 1), tuple |-> <<>>]
                        ELSE IF Len(rx.groups) = 1
                        THEN [isstr |-> TRUE, text |-> m.caps[1], tuple |-> <<>>]
                        ELSE [isstr |-> FALSE, text |-> <<>>, tuple |-> m.caps]
            IN  <<item>> \o FindAllFrom(rx, s, IF m.end = p THEN p + 1 ELSE m.end)

FindAll(rx, s) == FindAllFrom(rx, s, 1)

(***************************************************************************)
(* Version templates (_set_detected_app)                                   *)
(***************************************************************************)

\* Whether re's  \\i\?([^:]+):(.*)$  matches version at position p.
TernaryAt(version, index, p) ==
    /\ StartsAt(version, <<"\\", DigitChar(index), "?">>, p)
    /\ LET colon == FindFrom(version, <<":">>, p + 3) IN colon > p + 3

\* re.search of the ternary of group `index`: its position, 0 when none.
TernaryPos(version, index) ==
    IF \E p \in 1..Len(version) : TernaryAt(version, index, p)
    THEN CHOOSE p \in 1..Len(version) :
            /\ TernaryAt(version, index, p)
            /\ \A q \in 1..(p - 1) : ~TernaryAt(version, index, q)
    ELSE 0

\* A round that takes the ternary's branches the wrong way round.
SubstituteGroupSwapped(version, index, match) ==
    LET p == TernaryPos(version, index)
        colon == FindFrom(version, <<":">>, p + 3)
        group0 == SubSeq(version, p, Len(version))
        group1 == SubSeq(version, p + 3, colon - 1)
        group2 == SubSeq(version, colon + 1, Len(version))
        afterTernary ==
            IF p # 0
            THEN Replace(version, group0, IF match = <<>> THEN group1 ELSE group2)
            ELSE version
    IN  Replace(afterTernary, <<"\\", DigitChar(index)>>, match)

\* One round of the loop over the groups: the ternary of group `index`, then
\* its back references.
SubstituteGroup(version, index, match) ==
    LET p == TernaryPos(version, index)
        colon == FindFrom(version, <<":">>, p + 3)
        group0 == SubSeq(version, p, Len(version))
        group1 == SubSeq(version, p + 3, colon - 1)
        group2 == SubSeq(version, colon + 1, Len(version))
        afterTernary ==
            IF p # 0
            THEN Replace(version, group0, IF match # <<>> THEN group1 ELSE group2)
            ELSE version
    IN  Replace(afterTernary, <<"\\", DigitChar(index)>>, match)

RECURSIVE SubstituteFrom(_, _, _)
SubstituteFrom(version, matches, index) ==
    IF index > Len(matches) THEN version
    ELSE SubstituteFrom(SubstituteGroup(version, index, matches[index]),
                        matches, index + 1)

\* The groups of one findall item: a string is a one-group tuple.
Groups(item) == IF item.isstr THEN <<item.text>> ELSE item.tuple

\* The version one occurrence yields from the template.
VersionOf(template, item) == SubstituteFrom(template, Groups(item), 1)

(***************************************************************************)
(* Python values.  The code tests the type of a value (isinstance) and     *)
(* calls str and dict methods on it, so a value carries its type.  A dict  *)
(* whose keys are strings of characters is the list of its items in        *)
(* insertion order.                                                        *)
(***************************************************************************)

S(s) == [t |-> "str", s |-> s]
Name(n) == [t |-> "str", name |-> n]
L(l) == [t |-> "list", l |-> l]
D(d) == [t |-> "dict", d |-> d]
R(rx) == [t |-> "regex", rx |-> rx]
I(n) == [t |-> "int", n |-> n]

\* key in d
Has(d, k) == \E i \in 1..Len(d) : d[i].k = k

\* d[key]
Get(d, k) == d[CHOOSE i \in 1..Len(d) : d[i].k = k].v

\* d[key] = value
Set(d, k, v) ==
    IF Has(d, k)
    THEN [i \in 1..Len(d) |-> IF d[i].k = k THEN [k |-> k, v |-> v] ELSE d[i]]
    ELSE Append(d, [k |-> k, v |-> v])

\* entry[key] = value, for an entry (a dict with the literal keys of the code)
Put(d, k, v) == [x \in DOMAIN d \cup {k} |-> IF x = k THEN v ELSE d[x]]

StringKey     == <<"s", "t", "r", "i", "n", "g">>
RegexKey      == <<"r", "e", "g", "e", "x">>
ConfidenceKey == <<"c", "o", "n", "f", "i", "d", "e", "n", "c", "e">>
VersionKey    == <<"v", "e", "r", "s", "i", "o", "n">>
GeneratorKey  == <<"g", "e", "n", "e", "r", "a", "t", "o", "r">>

(***************************************************************************)
(* _prepare_pattern and _prepare_app                                       *)
(***************************************************************************)

\* The loop of _prepare_pattern over the segments after the first.
RECURSIVE PatternAttrs(_, _, _)
PatternAttrs(attrs, segments, index) ==
    IF index > Len(segments) THEN attrs
    ELSE
        LET attr == Split(segments[index], <<":">>) IN
        PatternAttrs(IF Len(attr) > 1
                     THEN Set(attrs, attr[1], S(Join(Tail(attr), <<":">>)))
                     ELSE attrs,
                     segments, index + 1)

\* _prepare_pattern(pattern).  ok is FALSE when it raises: pattern.split
\* exists only on a str.
PreparePattern(pattern) ==
    IF pattern.t # "str" THEN [ok |-> FALSE, v |-> pattern]
    ELSE
        LET segments == Split(pattern.s, <<"\\", ";">>)
            compiled == Compile(segments[1])
            attrs0 == Set(Set(<<>>, StringKey, S(segments[1])), RegexKey,
                          R(IF compiled.ok THEN compiled.rx ELSE NeverMatches))
        IN  [ok |-> TRUE, v |-> D(PatternAttrs(attrs0, segments, 2))]

\* "Ensure these keys' values are lists"
EnsureList(app, key) ==
    IF key \notin DOMAIN app THEN Put(app, key, L(<<>>))
    ELSE IF app[key].t # "list" THEN Put(app, key, L(<<app[key]>>))
    ELSE app

\* "Ensure these keys exist"
EnsureDict(app, key) == IF key \notin DOMAIN app THEN Put(app, key, D(<<>>)) ELSE app

\* "Ensure the 'meta' key is a dict"
EnsureMetaDict(app) ==
    IF app["meta"].t # "dict"
    THEN Put(app, "meta", D(<<[k |-> GeneratorKey, v |-> app["meta"]]>>))
    ELSE app

\* {k.lower(): v for k, v in list(obj.items())}
RECURSIVE LowerKeys(_, _, _)
LowerKeys(acc, d, i) ==
    IF i > Len(d) THEN acc
    ELSE LowerKeys(Set(acc, LowerStr(d[i].k), d[i].v), d, i + 1)

\* "Ensure keys are lowercase"
EnsureLower(app, key) == Put(app, key, D(LowerKeys(<<>>, app[key].d, 1)))

\* app[key] = [self._prepare_pattern(pattern) for pattern in app[key]]:
\* the assignment does not happen when a pattern raises.
PrepareList(st, key) ==
    IF ~st.ok THEN st
    ELSE
        LET old == st.app[key].l
            new == [i \in 1..Len(old) |-> PreparePattern(old[i])]
        IN  IF \E i \in 1..Len(old) : ~new[i].ok
            THEN [ok |-> FALSE, app |-> st.app]
            ELSE [ok |-> TRUE,
                  app |-> Put(st.app, key, L([i \in 1..Len(old) |-> new[i].v]))]

\* for name, pattern in list(obj.items()): obj[name] = ..., item by item.
RECURSIVE PrepareItems(_, _)
PrepareItems(d, i) ==
    IF i > Len(d) THEN [ok |-> TRUE, d |-> d]
    ELSE
        LET r == PreparePattern(d[i].v) IN
        IF ~r.ok THEN [ok |-> FALSE, d |-> d]
        ELSE PrepareItems(Set(d, d[i].k, r.v), i + 1)

PrepareDict(st, key) ==
    IF ~st.ok THEN st
    ELSE
        LET r == PrepareItems(st.app[key].d, 1) IN
        [ok |-> r.ok, app |-> Put(st.app, key, D(r.d))]

\* _prepare_app(app): the entry it leaves, and whether it returned (ok) or
\* raised.
PrepareApp(app) ==
    LET a1 == EnsureList(EnsureList(EnsureList(EnsureList(app,
                  "url"), "html"), "script"), "implies")
        a2 == EnsureDict(EnsureDict(a1, "headers"), "meta")
        a3 == EnsureMetaDict(a2)
        a4 == EnsureLower(EnsureLower(a3, "headers"), "meta")
        s0 == [ok |-> TRUE, app |-> a4]
    IN  PrepareDict(PrepareDict(
            PrepareList(PrepareList(PrepareList(s0, "url"), "html"), "script"),
            "headers"), "meta")

(***************************************************************************)
(* The match engine: _has_app, _set_detected_app, _set_app_version         *)
(***************************************************************************)

\* The facet name as the characters that start a confidence label.
TypeChars(app_type) ==
    CASE app_type = "url"     -> <<"u", "r", "l">>
      [] app_type = "headers" -> <<"h", "e", "a", "d", "e", "r", "s">>
      [] app_type = "script"  -> <<"s", "c", "r", "i", "p", "t">>
      [] app_type = "meta"    -> <<"m", "e", "t", "a">>
      [] app_type = "html"    -> <<"h", "t", "m", "l">>

\* The pattern object at position i of a facet of the entry.
PatternAt(app, facet, i) ==
    IF app[facet].t = "list" THEN app[facet].l[i] ELSE app[facet].d[i].v

\* The entry with that pattern object changed (the code changes it in place).
WithPattern(app, facet, i, pattern) ==
    IF app[facet].t = "list"
    THEN Put(app, facet, L([app[facet].l EXCEPT ![i] = pattern]))
    ELSE Put(app, facet, D([app[facet].d EXCEPT ![i].v = pattern]))

\* _sort_app_versions
SortAppVersions(version_a, version_b) == Len(version_a) - Len(version_b)

\* CmpToKey.__lt__ over _sort_app_versions
KeyLess(a, b) == SortAppVersions(a, b) < 0

\* sorted(): stable, so x goes before the first element it is less than.
RECURSIVE InsertSorted(_, _)
InsertSorted(sorted, x) ==
    IF sorted = <<>> THEN <<x>>
    ELSE IF KeyLess(x, sorted[1]) THEN <<x>> \o sorted
    ELSE <<sorted[1]>> \o InsertSorted(Tail(sorted), x)

RECURSIVE Sorted(_)
Sorted(list) ==
    IF list = <<>> THEN <<>>
    ELSE InsertSorted(Sorted(SubSeq(list, 1, Len(list) - 1)), list[Len(list)])

\* A _set_app_version that leaves the list in the order of discovery.
SetAppVersionUnsorted(app) == app

\* _set_app_version(app)
SetAppVersion(app) ==
    IF "versions" \notin DOMAIN app THEN app
    ELSE Put(app, "versions", Sorted(app["versions"]))

\* The version of one occurrence is kept when it is not empty and is new.
AddVersion(app, version) ==
    IF version = <<>> THEN app
    ELSE IF "versions" \notin DOMAIN app THEN Put(app, "versions", <<version>>)
    ELSE IF \E i \in 1..Len(app["versions"]) : app["versions"][i] = version THEN app
    ELSE Put(app, "versions", Append(app["versions"], version))

\* for i, matches in enumerate(allmatches): ...
RECURSIVE AddVersions(_, _, _, _)
AddVersions(app, template, allmatches, i) ==
    IF i > Len(allmatches) THEN app
    ELSE AddVersions(AddVersion(app, VersionOf(template, allmatches[i])),
                     template, allmatches, i + 1)

\* An entry marked only by the facets that set has_app.
MarkDetectedUnlessUrl(app, app_type) ==
    IF app_type = "url" THEN app ELSE Put(app, "detected", TRUE)

\* app['detected'] = True, whatever the facet app_type of the match
MarkDetected(app, app_type) == Put(app, "detected", TRUE)

\* int(pattern['confidence']) of a value that is a str of digits or an int
ToInt(v) == IF v.t = "int" THEN v.n ELSE ParseInt(v.s)

\* _set_detected_app(app_name, app, app_type, pattern, value, key), for the
\* pattern at position i of facet app_type: the entry it leaves.
SetDetectedApp(app, app_type, i, value, key) ==
    LET pattern == PatternAt(app, app_type, i)
        key2 == IF key # <<>> THEN key \o <<" ">> ELSE key
        a1 == MarkDetected(app, app_type)
        a2 == IF "confidence" \notin DOMAIN a1 THEN Put(a1, "confidence", <<>>) ELSE a1
        confidence == IF ~Has(pattern.d, ConfidenceKey) THEN 100
                      ELSE ToInt(Get(pattern.d, ConfidenceKey))
        pattern2 == D(Set(pattern.d, ConfidenceKey, I(confidence)))
        a3 == WithPattern(a2, app_type, i, pattern2)
        label == TypeChars(app_type) \o <<" ">> \o key2 \o Get(pattern2.d, StringKey).s
        a4 == Put(a3, "confidence", Set(a3["confidence"], label, confidence))
    IN  IF Has(pattern2.d, VersionKey)
        THEN SetAppVersion(AddVersions(a4, Get(pattern2.d, VersionKey).s,
                                       FindAll(Get(pattern2.d, RegexKey).rx, value), 1))
        ELSE a4

\* pattern['regex'].search(value) for the pattern at position i of a facet
Fires(app, facet, i, value) ==
    Search(Get(PatternAt(app, facet, i).d, RegexKey).rx, value)

\* name in webpage.headers / webpage.headers[name]: the header mapping of a
\* response looks names up without regard to case.
HeaderHas(headers, name) ==
    \E i \in 1..Len(headers) : LowerStr(headers[i].k) = LowerStr(name)

HeaderGet(headers, name) ==
    headers[CHOOSE i \in 1..Len(headers) : LowerStr(headers[i].k) = LowerStr(name)].v

\* for pattern in app['url'] / app['html']: one value, no field name.  `sets`
\* tells whether a match sets has_app.
RECURSIVE MatchList(_, _, _, _, _)
MatchList(st, facet, value, sets, i) ==
    IF i > Len(st.app[facet].l) THEN st
    ELSE MatchList(
            IF Fires(st.app, facet, i, value)
            THEN [app |-> SetDetectedApp(st.app, facet, i, value, <<>>),
                  has_app |-> st.has_app \/ sets]
            ELSE st,
            facet, value, sets, i + 1)

\* for script in webpage.scripts, for one pattern
RECURSIVE MatchScripts(_, _, _, _)
MatchScripts(st, i, scripts, j) ==
    IF j > Len(scripts) THEN st
    ELSE MatchScripts(
            IF Fires(st.app, "script", i, scripts[j])
            THEN [app |-> SetDetectedApp(st.app, "script", i, scripts[j], <<>>),
                  has_app |-> TRUE]
            ELSE st,
            i, scripts, j + 1)

\* for pattern in app['script']
RECURSIVE MatchScriptPatterns(_, _, _)
MatchScriptPatterns(st, scripts, i) ==
    IF i > Len(st.app["script"].l) THEN st
    ELSE MatchScriptPatterns(MatchScripts(st, i, scripts, 1), scripts, i + 1)

\* for name, pattern in list(app['headers'].items())
RECURSIVE MatchHeaders(_, _, _)
MatchHeaders(st, headers, i) ==
    IF i > Len(st.app["headers"].d) THEN st
    ELSE
        LET name == st.app["headers"].d[i].k IN
        MatchHeaders(
            IF HeaderHas(headers, name)
               /\ Fires(st.app, "headers", i, HeaderGet(headers, name))
            THEN [app |-> SetDetectedApp(st.app, "headers", i,
                                         HeaderGet(headers, name), name),
                  has_app |-> TRUE]
            ELSE st,
            headers, i + 1)

\* for name, pattern in list(app['meta'].items())
RECURSIVE MatchMeta(_, _, _)
MatchMeta(st, meta, i) ==
    IF i > Len(st.app["meta"].d) THEN st
    ELSE
        LET name == st.app["meta"].d[i].k IN
        MatchMeta(
            IF Has(meta, name) /\ Fires(st.app, "meta", i, Get(meta, name))
            THEN [app |-> SetDetectedApp(st.app, "meta", i, Get(meta, name), name),
                  has_app |-> TRUE]
            ELSE st,
            meta, i + 1)

\* total += app['confidence'][index] over the labels
RECURSIVE SumConfidence(_, _)
SumConfidence(confidence, i) ==
    IF i > Len(confidence) THEN 0
    ELSE confidence[i].v + SumConfidence(confidence, i + 1)

\* "Set total confidence"
SetTotal(st) ==
    IF st.has_app
    THEN [st EXCEPT !.app = Put(st.app, "confidenceTotal",
                                SumConfidence(st.app["confidence"], 1))]
    ELSE st

\* A url loop that sets has_app like the other loops.
UrlSetsHasAppToo == TRUE

\* A url match does not set has_app; a match of any other facet does.
UrlSetsHasApp == FALSE

\* _has_app(app_name, app, webpage): the entry it leaves and what it returns.
HasApp(app, webpage) ==
    LET s0 == [app |-> app, has_app |-> FALSE]
        s1 == MatchList(s0, "url", webpage.url, UrlSetsHasApp, 1)
        s2 == MatchHeaders(s1, webpage.headers, 1)
        s3 == MatchScriptPatterns(s2, webpage.scripts, 1)
        s4 == MatchMeta(s3, webpage.meta, 1)
        s5 == MatchList(s4, "html", webpage.html, TRUE, 1)
    IN  SetTotal(s5)

(***************************************************************************)
(* The implied technologies, the accessors and analyze                     *)
(***************************************************************************)

\* An inner function that assigns the implies of each app instead of adding
\* them, so that it returns the implies of one app only.
InnerImpliedAssigned(impl, names) ==
    IF names \cap DOMAIN impl = {} THEN {}
    ELSE impl[CHOOSE a \in names \cap DOMAIN impl :
                \A b \in names \cap DOMAIN impl : Cardinality(impl[a]) <= Cardinality(impl[b])]

\* __get_implied_apps(apps) inside _get_implied_apps, over the implies lists
\* impl of the store: a name that is no key of the store raises KeyError,
\* which is passed over.
InnerImplied(impl, names) ==
    UNION {impl[a] : a \in names \cap DOMAIN impl}

\* The while loop of _get_implied_apps, from its state (implied, all).
RECURSIVE ImpliedLoop(_, _, _)
ImpliedLoop(impl, implied, all) ==
    IF implied \subseteq all THEN all
    ELSE ImpliedLoop(impl, InnerImplied(impl, all \cup implied), all \cup implied)

\* _get_implied_apps(detected_apps)
GetImpliedApps(impl, detected) ==
    ImpliedLoop(impl, InnerImplied(impl, detected), {})

\* set(self.apps[app]['implies']) for every entry of the store
ImpliesOf(store) ==
    [n \in DOMAIN store |->
        {store[n]["implies"].l[i].name : i \in 1..Len(store[n]["implies"].l)}]

\* get_versions(app_name), app_name a key of the store
GetVersions(store, app_name) ==
    IF "versions" \notin DOMAIN store[app_name] THEN <<>>
    ELSE store[app_name]["versions"]

\* get_confidence(app_name), app_name a key of the store: the empty list, or
\* the total (here as a list of one number)
GetConfidence(store, app_name) ==
    IF "confidenceTotal" \notin DOMAIN store[app_name] THEN <<>>
    ELSE <<store[app_name]["confidenceTotal"]>>

\* The loop of analyze over the entries: for every entry, what _has_app
\* leaves and returns.
MatchAll(store, webpage) == [n \in DOMAIN store |-> HasApp(store[n], webpage)]

\* The store after the loop of analyze over the entries.
Matched(store, webpage) ==
    LET m == MatchAll(store, webpage) IN [n \in DOMAIN store |-> m[n].app]

\* detected_apps of analyze before the implied ones are added.
DirectlyDetected(store, webpage) ==
    LET m == MatchAll(store, webpage) IN {n \in DOMAIN store : m[n].has_app}

\* analyze(webpage): the store it leaves, detected_apps before the implied
\* ones are added (direct) and the set it returns (names).
Analyze(store, webpage) ==
    LET Returned(m) ==
            LET after == [n \in DOMAIN store |-> m[n].app]
                detected == {n \in DOMAIN store : m[n].has_app}
            IN  [store |-> after,
                 direct |-> detected,
                 names |-> detected \cup GetImpliedApps(ImpliesOf(after), detected)]
    IN  Returned(MatchAll(store, webpage))

\* analyze_with_versions(webpage): the store it leaves and what it returns;
\* self.apps[app_name] raises KeyError for a detected name that is no key of
\* the store.
AnalyzeWithVersions(store, webpage) ==
    LET Report(a) ==
            [store |-> a.store,
             result |->
                IF a.names \subseteq DOMAIN store
                THEN [done |-> TRUE, raised |-> FALSE, direct |-> a.direct,
                      names |-> a.names,
                      versions |-> [n \in a.names |-> GetVersions(a.store, n)]]
                ELSE [done |-> TRUE, raised |-> TRUE, direct |-> a.direct,
                      names |-> a.names, versions |-> <<>>]]
    IN  Report(Analyze(store, webpage))

(***************************************************************************)
(* The analysed store and the pages                                        *)
(***************************************************************************)

\* The `apps` document the store is constructed from.
\*   A: script  a-([0-9.]+)\;version:\1
\*      html    ab\;confidence:50   and   a(   (which does not compile)
\*      implies B
\*   B: url     v([0-9]+)\;version:\1\;confidence:30
\*      headers X-P: p/([0-9.]+)\;version:\1
\*      implies A
\*   C: url     c([0-9]*)\;version:\1
\*      meta    c([0-9]*)\;version:\1?pro:free      (a bare string)
\*      implies C and Z, and Z is no entry of the store
RawApps ==
    [A |-> [cats |-> <<1>>,
            script |-> S(<<"a", "-", "(", "[", "0", "-", "9", ".", "]", "+", ")",
                           "\\", ";", "v", "e", "r", "s", "i", "o", "n", ":", "\\", "1">>),
            html |-> L(<<S(<<"a", "b", "\\", ";", "c", "o", "n", "f", "i", "d", "e",
                             "n", "c", "e", ":", "5", "0">>),
                         S(<<"a", "(">>)>>),
            implies |-> Name("B")],
     B |-> [cats |-> <<2, 9>>,
            url |-> S(<<"v", "(", "[", "0", "-", "9", "]", "+", ")",
                        "\\", ";", "v", "e", "r", "s", "i", "o", "n", ":", "\\", "1",
                        "\\", ";", "c", "o", "n", "f", "i", "d", "e", "n", "c", "e",
                        ":", "3", "0">>),
            headers |-> D(<<[k |-> <<"X", "-", "P">>,
                             v |-> S(<<"p", "/", "(", "[", "0", "-", "9", ".", "]", "+", ")",
                                       "\\", ";", "v", "e", "r", "s", "i", "o", "n",
                                       ":", "\\", "1">>)]>>),
            implies |-> L(<<Name("A")>>)],
     C |-> [cats |-> <<1>>,
            url |-> L(<<S(<<"c", "(", "[", "0", "-", "9", "]", "*", ")",
                            "\\", ";", "v", "e", "r", "s", "i", "o", "n", ":", "\\", "1">>)>>),
            meta |-> S(<<"c", "(", "[", "0", "-", "9", "]", "*", ")",
                         "\\", ";", "v", "e", "r", "s", "i", "o", "n", ":",
                         "\\", "1", "?", "p", "r", "o", ":", "f", "r", "e", "e">>),
            implies |-> L(<<Name("C"), Name("Z")>>)]]

\* Wappalyzer.__init__: every entry of the document prepared.
NewStore(raw) == [n \in DOMAIN raw |-> PrepareApp(raw[n]).app]

Urls == {<<"x">>, <<"v", "1">>, <<"V", "2", "c">>}
HeaderSets == {<<>>, <<[k |-> <<"x", "-", "p">>, v |-> <<"P", "/", "1", ".", "2">>]>>}

\* What _parse_html finds in a document: the html text the html patterns
\* search, the src of its script tags, the content of its named meta tags
\* (the names lower-cased).  The parser is BeautifulSoup, outside the model.
Documents ==
    {[html |-> <<>>, scripts |-> <<>>, meta |-> <<>>],
     [html |-> <<"a", "b">>,
      scripts |-> <<<<"a", "-", "1", ".", "2">>, <<"a", "-", "1", ".", "2", ".", "1">>>>,
      meta |-> <<>>],
     [html |-> <<"x">>,
      scripts |-> <<<<"a", "-", "2", ".", "1">>>>,
      meta |-> <<[k |-> GeneratorKey, v |-> <<"c", "1">>]>>],
     [html |-> <<>>, scripts |-> <<>>,
      meta |-> <<[k |-> GeneratorKey, v |-> <<"c">>]>>]}

\* WebPage(url, html, headers) after _parse_html.
Pages ==
    {[url |-> u, html |-> d.html, headers |-> h, scripts |-> d.scripts, meta |-> d.meta] :
        u \in Urls, h \in HeaderSets, d \in Documents}

NoPage == [url |-> <<>>, html |-> <<>>, headers |-> <<>>, scripts |-> <<>>, meta |-> <<>>]
NoResult == [done |-> FALSE, raised |-> FALSE, direct |-> {}, names |-> {}, versions |-> <<>>]

\* The analyses made on one store in a run.
MaxAnalyses == 3

(***************************************************************************)
(* Specification of the analyses on one store                              *)
(***************************************************************************)

IdleClosure ==
    /\ implies = <<>> /\ detected_apps = {} /\ implied_apps = {}
    /\ all_implied_apps = {} /\ cpc = "idle" /\ iters = 0
IdleVersion ==
    /\ vpattern = <<>> /\ vvalue = <<>> /\ vout = <<>> /\ vapp = <<>> /\ vpc = "idle"
IdlePrepare ==
    /\ entry = <<>> /\ prepared = 0 /\ first = <<>> /\ perr = FALSE
IdleCategory ==
    /\ catapps = <<>> /\ catname = "" /\ catresult = <<>>
IdleAnalysis ==
    /\ apps = <<>> /\ page = NoPage /\ result = NoResult /\ calls = 0

Init ==
    /\ apps = NewStore(RawApps)
    /\ page = NoPage
    /\ result = NoResult
    /\ calls = 0
    /\ IdleClosure /\ IdleVersion /\ IdlePrepare /\ IdleCategory

\* One call of analyze_with_versions(webpage) on the store.
AnalyzeAction(webpage) ==
    /\ calls < MaxAnalyses
    /\ calls' = calls + 1
    /\ LET r == AnalyzeWithVersions(apps, webpage) IN
        /\ apps' = r.store
        /\ result' = r.result
    /\ page' = webpage
    /\ UNCHANGED <<closureVars, versionVars, prepareVars, categoryVars>>

Next == \E webpage \in Pages : AnalyzeAction(webpage)

Spec == Init /\ [][Next]_vars

(***************************************************************************)
(* What fires on a page, read off the patterns of the store                *)
(***************************************************************************)

Positions(app, facet) ==
    IF app[facet].t = "list" THEN 1..Len(app[facet].l) ELSE 1..Len(app[facet].d)

\* The firings of the entry on the page: facet, position and field name.
Firings(app, webpage) ==
    {[facet |-> "url", i |-> i, key |-> <<>>] :
        i \in {i \in Positions(app, "url") : Fires(app, "url", i, webpage.url)}}
    \cup
    {[facet |-> "headers", i |-> i, key |-> app["headers"].d[i].k] :
        i \in {i \in Positions(app, "headers") :
                /\ HeaderHas(webpage.headers, app["headers"].d[i].k)
                /\ Fires(app, "headers", i,
                         HeaderGet(webpage.headers, app["headers"].d[i].k))}}
    \cup
    {[facet |-> "script", i |-> i, key |-> <<>>] :
        i \in {i \in Positions(app, "script") :
                \E j \in 1..Len(webpage.scripts) :
                    Fires(app, "script", i, webpage.scripts[j])}}
    \cup
    {[facet |-> "meta", i |-> i, key |-> app["meta"].d[i].k] :
        i \in {i \in Positions(app, "meta") :
                /\ Has(webpage.meta, app["meta"].d[i].k)
                /\ Fires(app, "meta", i, Get(webpage.meta, app["meta"].d[i].k))}}
    \cup
    {[facet |-> "html", i |-> i, key |-> <<>>] :
        i \in {i \in Positions(app, "html") : Fires(app, "html", i, webpage.html)}}

UrlFires(app, webpage) == \E f \in Firings(app, webpage) : f.facet = "url"
OtherFires(app, webpage) == \E f \in Firings(app, webpage) : f.facet # "url"
OnlyUrlFires(app, webpage) == UrlFires(app, webpage) /\ ~OtherFires(app, webpage)

\* facet + " " + fieldName + " " + expression
LabelOf(app, f) ==
    TypeChars(f.facet) \o <<" ">>
    \o (IF f.key # <<>> THEN f.key \o <<" ">> ELSE <<>>)
    \o Get(PatternAt(app, f.facet, f.i).d, StringKey).s

\* The weight of a pattern: its confidence attribute, 100 without one.
WeightOf(app, f) ==
    LET d == PatternAt(app, f.facet, f.i).d IN
    IF Has(d, ConfidenceKey) THEN ToInt(Get(d, ConfidenceKey)) ELSE 100

\* The distinct labels of the firings, each with its weight.
FiredLabels(app, webpage) ==
    {[label |-> LabelOf(app, f), weight |-> WeightOf(app, f)] :
        f \in Firings(app, webpage)}

RECURSIVE SumWeights(_)
SumWeights(labels) ==
    IF labels = {} THEN 0
    ELSE LET x == CHOOSE x \in labels : TRUE
         IN  x.weight + SumWeights(labels \ {x})

(***************************************************************************)
(* Claims about the analyses on one store (specification Spec)             *)
(***************************************************************************)

\* C2: in one analyze call, a technology for which only url patterns fire is
\* not directly detected, and is in the result only when another technology
\* of the result implies it; a technology for which a headers, script, meta
\* or html pattern fires is in the result.
C2_UrlAloneDoesNotDetect ==
    result.done =>
        \A n \in DOMAIN apps :
            /\ OnlyUrlFires(apps[n], page) =>
                  /\ n \notin result.direct
                  /\ n \in result.names =>
                        \E m \in (result.names \cap DOMAIN apps) \ {n} :
                            n \in ImpliesOf(apps)[m]
            /\ OtherFires(apps[n], page) => n \in result.direct /\ n \in result.names

\* The case of C2: a technology with only a url firing that the result holds
\* as implied, next to a directly detected one.
C2_Witness ==
    /\ result.done
    /\ \E n \in result.names \cap DOMAIN apps :
          OnlyUrlFires(apps[n], page) /\ n \notin result.direct
    /\ \E n \in result.direct : OtherFires(apps[n], page)

\* C3: for every directly detected technology the confidence total is the sum
\* of the weights over the distinct labels of the patterns that fired for it
\* in the analysis.
C3_TotalIsSumOfFiredLabels ==
    result.done =>
        \A n \in result.direct :
            GetConfidence(apps, n) = <<SumWeights(FiredLabels(apps[n], page))>>

\* C3 on the first analysis of a store: there the total is that sum, also
\* when a pattern fires for several script URLs.
C3_FirstAnalysis ==
    (result.done /\ calls = 1) =>
        \A n \in result.direct :
            GetConfidence(apps, n) = <<SumWeights(FiredLabels(apps[n], page))>>

\* C4: the version list of every technology holds no empty string, holds no
\* string twice and is ordered by non-decreasing length.
C4_VersionsOrdered ==
    \A n \in DOMAIN apps :
        LET v == GetVersions(apps, n) IN
        /\ \A i \in 1..Len(v) : v[i] # <<>>
        /\ \A i, j \in 1..Len(v) : i # j => v[i] # v[j]
        /\ \A i, j \in 1..Len(v) : i < j => Len(v[i]) <= Len(v[j])

\* The case of C4: a later analysis found a shorter version than the one the
\* list already held, and the list has the shorter one first.
C4_Witness ==
    /\ calls >= 2
    /\ \E n \in DOMAIN apps :
        LET v == GetVersions(apps, n) IN
        /\ Len(v) >= 2
        /\ Len(v[1]) < Len(v[Len(v)])
        /\ \E i \in 1..Len(page.url) : <<page.url[i]>> = v[1]

\* C8: in the result of analyze_with_versions a technology that is there only
\* as implied has an empty version list and no confidence total.
C8_ImpliedCarriesNothing ==
    (result.done /\ ~result.raised) =>
        \A n \in result.names \ result.direct :
            /\ result.versions[n] = <<>>
            /\ GetConfidence(apps, n) = <<>>

\* C9 as stated: after an analysis in which only url patterns fire for a
\* technology, the detected flag of its entry is not set.
C9_UrlLeavesFlagUnset ==
    result.done =>
        \A n \in DOMAIN apps :
            OnlyUrlFires(apps[n], page) => "detected" \notin DOMAIN apps[n]

\* C9 as amended: an analysis sets the detected flag of exactly the entries
\* for which a pattern of any facet fires, url included, and leaves the flag
\* of the other entries as it was.
C9_AnyFiringSetsFlag ==
    [][\A n \in DOMAIN apps :
          ("detected" \in DOMAIN apps'[n]) <=>
              ("detected" \in DOMAIN apps[n] \/ Firings(apps[n], page') # {})]_vars

\* The case of C9: the first analysis of the store, only a url pattern fires
\* for a technology, and its flag is set.
C9_Witness ==
    /\ calls = 1
    /\ \E n \in DOMAIN apps :
        /\ OnlyUrlFires(apps[n], page)
        /\ "detected" \in DOMAIN apps[n]
        /\ n \notin result.direct

\* C10: what is reported for the page analysed last (names, versions,
\* confidence totals) is what analysing that page alone on a newly
\* constructed store reports.
C10_AnalysesIsolated ==
    result.done =>
        LET alone == AnalyzeWithVersions(NewStore(RawApps), page) IN
        /\ result = alone.result
        /\ \A n \in result.names \cap DOMAIN apps :
              GetConfidence(apps, n) = GetConfidence(alone.store, n)

(***************************************************************************)
(* Specification of _get_implied_apps inside analyze, step by step, over   *)
(* every store of StoreNames whose implies lists hold at most MaxImplies   *)
(* names, among them a name that is no entry of the store.                 *)
(***************************************************************************)

StoreNames == {"A", "B", "C"}
ImpliedNames == StoreNames \cup {"Z"}

\* The names in one implies list.
MaxImplies == 2

ImpliesLists == {s \in SUBSET ImpliedNames : Cardinality(s) <= MaxImplies}

ClosureInit ==
    /\ implies \in [StoreNames -> ImpliesLists]
    /\ detected_apps \in SUBSET StoreNames
    /\ implied_apps = {}
    /\ all_implied_apps = {}
    /\ cpc = "call"
    /\ iters = 0
    /\ IdleAnalysis /\ IdleVersion /\ IdlePrepare /\ IdleCategory

\* implied_apps = __get_implied_apps(detected_apps); all_implied_apps = set()
ClosureEnter ==
    /\ cpc = "call"
    /\ implied_apps' = InnerImplied(implies, detected_apps)
    /\ all_implied_apps' = {}
    /\ cpc' = "while"
    /\ UNCHANGED <<implies, detected_apps, iters>>
    /\ UNCHANGED <<analysisVars, versionVars, prepareVars, categoryVars>>

\* One round of: while not all_implied_apps.issuperset(implied_apps)
ClosureRound ==
    /\ cpc = "while"
    /\ ~(implied_apps \subseteq all_implied_apps)
    /\ all_implied_apps' = all_implied_apps \cup implied_apps
    /\ implied_apps' = InnerImplied(implies, all_implied_apps')
    /\ iters' = iters + 1
    /\ UNCHANGED <<implies, detected_apps, cpc>>
    /\ UNCHANGED <<analysisVars, versionVars, prepareVars, categoryVars>>

\* The loop ends; analyze: detected_apps |= all_implied_apps; return
ClosureReturn ==
    /\ cpc = "while"
    /\ implied_apps \subseteq all_implied_apps
    /\ detected_apps' = detected_apps \cup all_implied_apps
    /\ cpc' = "returned"
    /\ UNCHANGED <<implies, implied_apps, all_implied_apps, iters>>
    /\ UNCHANGED <<analysisVars, versionVars, prepareVars, categoryVars>>

ClosureNext == ClosureEnter \/ ClosureRound \/ ClosureReturn

\* analyze is a synchronous call: it runs on while it can take a step.
ClosureSpec == ClosureInit /\ [][ClosureNext]_vars /\ WF_vars(ClosureNext)

\* C1: over every store, cycles, self-implications and names outside the
\* store included, the computation of the implied technologies ends, and in
\* the set analyze returns every name in the implies list of every returned
\* technology is in that set.
C1_ClosureEndsClosed ==
    /\ <>(cpc = "returned")
    /\ [](cpc = "returned" =>
            \A n \in detected_apps \cap DOMAIN implies : implies[n] \subseteq detected_apps)

\* The case of C1: a store where A and B imply each other, C implies itself
\* and a name outside the store, the loop went round more than once and
\* analyze has returned all of them.
C1_Witness ==
    /\ cpc = "returned"
    /\ iters >= 2
    /\ "B" \in implies["A"] /\ "A" \in implies["B"]
    /\ implies["C"] = {"C", "Z"}
    /\ "Z" \in detected_apps

(***************************************************************************)
(* Specification of the version extraction of _set_detected_app: one       *)
(* firing pattern with a version template, one matched value.              *)
(***************************************************************************)

VersionAttr == <<"\\", ";", "v", "e", "r", "s", "i", "o", "n", ":">>

RegexDotted  == <<"v", "(", "[", "0", "-", "9", ".", "]", "+", ")">>
RegexMaybeX  == <<"a", "(", "[", "x", "]", "*", ")">>
RegexTwo     == <<"a", "(", "[", "0", "-", "9", "]", "*", ")", "(", "[", "x", "]", "*", ")">>
RegexNoGroup == <<"a", "b">>
VersionRegexes == {RegexDotted, RegexMaybeX, RegexTwo, RegexNoGroup}

TemplateGroup1  == <<"\\", "1">>
TemplateProFree == <<"\\", "1", "?", "P", "r", "o", ":", "F", "r", "e", "e">>
TemplateEither  == <<"\\", "1", "?", "\\", "1", ":", "\\", "2">>
TemplateSecond  == <<"\\", "2", "?", "\\", "1", ":", "x">>
TemplateBoth    == <<"\\", "1", ".", "\\", "2">>
VersionTemplates ==
    {TemplateGroup1, TemplateProFree, TemplateEither, TemplateSecond, TemplateBoth}

ValueScript == <<"s", "c", "r", "i", "p", "t", "-", "v", "2", ".", "3", ".", "1", ".", "j", "s">>
VersionValues ==
    {ValueScript, <<"a">>, <<"a", "x">>, <<"a", "1", "x">>, <<"a", "1">>,
     <<"a", "b", "a", "x">>, <<"V", "1", "v", "2", "2">>, <<"x">>}

\* The pattern object _prepare_pattern makes of expression\;version:template
VersionPattern(expression, template) ==
    PreparePattern(S(expression \o VersionAttr \o template)).v

\* A prepared entry whose only pattern is the given one, as its url pattern.
EntryOf(pattern) ==
    [url |-> L(<<pattern>>)] @@ PrepareApp([cats |-> <<>>]).app

VersionInit ==
    /\ vpattern \in {VersionPattern(e, v) : e \in VersionRegexes, v \in VersionTemplates}
    /\ vvalue \in VersionValues
    /\ vout = <<>>
    /\ vapp = EntryOf(vpattern)
    /\ vpc = "ready"
    /\ IdleAnalysis /\ IdleClosure /\ IdlePrepare /\ IdleCategory

\* The pattern fires on the value: _set_detected_app runs.
VersionFire ==
    /\ vpc = "ready"
    /\ Fires(vapp, "url", 1, vvalue)
    /\ LET occurrences == FindAll(Get(vpattern.d, RegexKey).rx, vvalue) IN
       vout' = [k \in 1..Len(occurrences) |->
                    VersionOf(Get(vpattern.d, VersionKey).s, occurrences[k])]
    /\ vapp' = SetDetectedApp(vapp, "url", 1, vvalue, <<>>)
    /\ vpc' = "set"
    /\ UNCHANGED <<vpattern, vvalue>>
    /\ UNCHANGED <<analysisVars, closureVars, prepareVars, categoryVars>>

\* The pattern does not fire on the value: nothing is recorded.
VersionMiss ==
    /\ vpc = "ready"
    /\ ~Fires(vapp, "url", 1, vvalue)
    /\ vpc' = "missed"
    /\ UNCHANGED <<vpattern, vvalue, vout, vapp>>
    /\ UNCHANGED <<analysisVars, closureVars, prepareVars, categoryVars>>

VersionNext == VersionFire \/ VersionMiss

VersionSpec == VersionInit /\ [][VersionNext]_vars

\* The template read as the claim reads it, one group after the other: the
\* ternary of the group gives way to one of its branches, then every back
\* reference to the group gives way to the group's text.
ClaimedTernary(template, index, text) ==
    LET starts == {p \in 1..Len(template) :
                     /\ StartsAt(template, <<"\\", DigitChar(index), "?">>, p)
                     /\ \E c \in (p + 4)..Len(template) :
                           /\ template[c] = ":"
                           /\ \A k \in (p + 3)..(c - 1) : template[k] # ":"}
    IN  IF starts = {} THEN template
        ELSE LET p == CHOOSE p \in starts : \A q \in starts : p <= q
                 c == CHOOSE c \in (p + 4)..Len(template) :
                         /\ template[c] = ":"
                         /\ \A k \in (p + 3)..(c - 1) : template[k] # ":"
             IN  SubSeq(template, 1, p - 1)
                 \o (IF text # <<>> THEN SubSeq(template, p + 3, c - 1)
                     ELSE SubSeq(template, c + 1, Len(template)))

RECURSIVE ClaimedReferences(_, _, _, _)
ClaimedReferences(template, index, text, k) ==
    IF k > Len(template) THEN <<>>
    ELSE IF k < Len(template) /\ template[k] = "\\" /\ template[k + 1] = DigitChar(index)
    THEN text \o ClaimedReferences(template, index, text, k + 2)
    ELSE <<template[k]>> \o ClaimedReferences(template, index, text, k + 1)

RECURSIVE ClaimedVersion(_, _, _)
ClaimedVersion(template, groups, index) ==
    IF index > Len(groups) THEN template
    ELSE ClaimedVersion(
            ClaimedReferences(ClaimedTernary(template, index, groups[index]),
                              index, groups[index], 1),
            groups, index + 1)

\* For every occurrence of the regex in the value the extracted version is
\* the template with the ternaries and back references of the groups
\* replaced, and the entry keeps every such version that is not empty.
VersionsAsClaimed ==
    vpc = "set" =>
        LET occurrences == FindAll(Get(vpattern.d, RegexKey).rx, vvalue)
            template == Get(vpattern.d, VersionKey).s
        IN  /\ Len(vout) = Len(occurrences)
            /\ \A k \in 1..Len(vout) :
                  /\ vout[k] = ClaimedVersion(template, Groups(occurrences[k]), 1)
                  /\ vout[k] # <<>> =>
                        \E j \in 1..Len(GetVersions([a |-> vapp], "a")) :
                            GetVersions([a |-> vapp], "a")[j] = vout[k]

\* Template \1?Pro:Free yields Pro for group 1 = x and Free for group 1 = "".
ProFreeAsClaimed ==
    (vpc = "set" /\ vpattern = VersionPattern(RegexMaybeX, TemplateProFree)) =>
        /\ vvalue = <<"a", "x">> => vout = <<<<"P", "r", "o">>>>
        /\ vvalue = <<"a">> => vout = <<<<"F", "r", "e", "e">>>>

\* C6 as stated: the general rule, the Pro/Free example, and template \1
\* with pattern v([0-9.]+) on script-v2.3.1.js yields 2.3.1
C6_VersionFromTemplate ==
    /\ VersionsAsClaimed
    /\ ProFreeAsClaimed
    /\ (vpc = "set" /\ vpattern = VersionPattern(RegexDotted, TemplateGroup1)
            /\ vvalue = ValueScript)
          => vout = <<<<"2", ".", "3", ".", "1">>>>

\* C6 as amended: the same, but on script-v2.3.1.js the class [0-9.] takes
\* the dot before js too, and the version is 2.3.1. with that dot.
C6_VersionFromTemplateDotted ==
    /\ VersionsAsClaimed
    /\ ProFreeAsClaimed
    /\ (vpc = "set" /\ vpattern = VersionPattern(RegexDotted, TemplateGroup1)
            /\ vvalue = ValueScript)
          => vout = <<<<"2", ".", "3", ".", "1", ".">>>>

\* The case of C6: a ternary whose group is empty took its else branch, which
\* is a back reference to the second group.
C6_Witness ==
    /\ vpc = "set"
    /\ vpattern = VersionPattern(RegexTwo, TemplateEither)
    /\ vvalue = <<"a", "b", "a", "x">>
    /\ vout = <<<<>>, <<"x">>>>
    /\ GetVersions([a |-> vapp], "a") = <<<<"x">>>>

(***************************************************************************)
(* Specification of _prepare_app applied again to the entry it prepared    *)
(***************************************************************************)

\* The applications of _prepare_app to one entry.
MaxPrepare == 2

RawPatternA == S(<<"a", "b", "\\", ";", "c", "o", "n", "f", "i", "d", "e", "n", "c", "e",
                   ":", "5", "0">>)
RawPatternB == S(<<"v", "(", "[", "0", "-", "9", "]", "+", ")",
                   "\\", ";", "v", "e", "r", "s", "i", "o", "n", ":", "\\", "1">>)

\* What a key of a raw entry may hold; Absent stands for a missing key.
Absent == [t |-> "absent"]
UrlChoices == {Absent, RawPatternA, L(<<>>), L(<<RawPatternA, RawPatternB>>)}
HtmlChoices == {Absent, RawPatternB}
ScriptChoices == {Absent, RawPatternA}
ImpliesChoices == {Absent, Name("B"), L(<<Name("B"), Name("Z")>>)}
HeadersChoices == {Absent, D(<<>>), D(<<[k |-> <<"X", "-", "P">>, v |-> RawPatternB]>>)}
MetaChoices == {Absent, RawPatternA, D(<<[k |-> <<"G", "e", "n">>, v |-> RawPatternA]>>)}

\* The entry with the keys that are not Absent.
RawEntry(url, html, script, impl, headers, meta) ==
    LET all == [url |-> url, html |-> html, script |-> script, implies |-> impl,
                headers |-> headers, meta |-> meta]
    IN  [k \in {k \in DOMAIN all : all[k].t # "absent"} |-> all[k]]

PrepareInit ==
    /\ entry \in {RawEntry(u, h, s, i, hd, m) :
                    u \in UrlChoices, h \in HtmlChoices, s \in ScriptChoices,
                    i \in ImpliesChoices, hd \in HeadersChoices, m \in MetaChoices}
    /\ prepared = 0
    /\ first = <<>>
    /\ perr = FALSE
    /\ IdleAnalysis /\ IdleClosure /\ IdleVersion /\ IdleCategory

\* self._prepare_app(entry), once more
PrepareAgain ==
    /\ prepared < MaxPrepare
    /\ ~perr
    /\ LET r == PrepareApp(entry) IN
        /\ entry' = r.app
        /\ perr' = ~r.ok
        /\ first' = IF prepared = 0 THEN r.app ELSE first
    /\ prepared' = prepared + 1
    /\ UNCHANGED <<analysisVars, closureVars, versionVars, categoryVars>>

PrepareNext == PrepareAgain

PrepareSpec == PrepareInit /\ [][PrepareNext]_vars

\* C5: the second application of _prepare_app to an entry completes without
\* error and leaves the entry as the first application left it.
C5_PrepareIdempotent ==
    prepared = 2 => (~perr /\ entry = first)

(***************************************************************************)
(* Specification of get_categories                                         *)
(***************************************************************************)

\* self.categories: category 2 has no "name".
Categories ==
    ("1" :> [name |-> "CMS"]) @@ ("2" :> [priority |-> "low"])

\* The ids in one cats list.
MaxCats == 2

CatIds == {1, 2, 3}
CatLists == UNION {[1..k -> CatIds] : k \in 0..MaxCats}

\* An entry with a cats list, or without the key.
CatEntries == {[cats |-> c] : c \in CatLists} \cup {[url |-> L(<<>>)]}

CategoryInit ==
    /\ catapps \in [{"A", "B"} -> CatEntries]
    /\ catname = ""
    /\ catresult = [done |-> FALSE, raised |-> FALSE, names |-> <<>>]
    /\ IdleAnalysis /\ IdleClosure /\ IdleVersion /\ IdlePrepare

\* self.categories.get(str(cat_num), "").get("name", ""): the default of
\* the first get is a str, which has no get.
CategoryName(categories, cat_num) ==
    IF DigitChar(cat_num) \notin DOMAIN categories
    THEN [raised |-> TRUE, name |-> ""]
    ELSE IF "name" \notin DOMAIN categories[DigitChar(cat_num)]
    THEN [raised |-> FALSE, name |-> ""]
    ELSE [raised |-> FALSE, name |-> categories[DigitChar(cat_num)]["name"]]

\* get_categories(app_name)
GetCategories(store, categories, app_name) ==
    LET cat_nums == IF app_name \notin DOMAIN store THEN <<>>
                    ELSE IF "cats" \notin DOMAIN store[app_name] THEN <<>>
                    ELSE store[app_name]["cats"]
        each == [i \in 1..Len(cat_nums) |-> CategoryName(categories, cat_nums[i])]
    IN  IF \E i \in 1..Len(cat_nums) : each[i].raised
        THEN [done |-> TRUE, raised |-> TRUE, names |-> <<>>]
        ELSE [done |-> TRUE, raised |-> FALSE,
              names |-> [i \in 1..Len(cat_nums) |-> each[i].name]]

GetCategoriesAction(app_name) ==
    /\ ~catresult.done
    /\ catname' = app_name
    /\ catresult' = GetCategories(catapps, Categories, app_name)
    /\ UNCHANGED catapps
    /\ UNCHANGED <<analysisVars, closureVars, versionVars, prepareVars>>

CategoryNext == \E app_name \in {"A", "B", "Z"} : GetCategoriesAction(app_name)

CategorySpec == CategoryInit /\ [][CategoryNext]_vars

\* C7: get_categories returns, for every id of cats, the display name of the
\* category, the empty string where the id is no key of the category table,
\* without raising; and the empty list for a name that is not in the store.
C7_CategoriesDefaulted ==
    catresult.done =>
        /\ ~catresult.raised
        /\ catname \notin DOMAIN catapps => catresult.names = <<>>
        /\ (catname \in DOMAIN catapps /\ "cats" \in DOMAIN catapps[catname]) =>
              LET cats == catapps[catname]["cats"] IN
              /\ Len(catresult.names) = Len(cats)
              /\ \A i \in 1..Len(cats) :
                    catresult.names[i] =
                        IF DigitChar(cats[i]) = "1" THEN "CMS" ELSE ""

====
